---- MODULE Spec2Model ----
(***************************************************************************)
(* Super Simple Stock Market (sssm.py): the Stock, Trade and StockMarket   *)
(* classes as a state machine.                                             *)
(*                                                                         *)
(* Numbers.  Python floats are modelled by integers (prices, dividends,    *)
(* par values) and a true division a / b by the exact fraction             *)
(* [num |-> a, den |-> b] in lowest terms, so that equal numbers are equal *)
(* values; a fraction is compared with a / b by cross-multiplication       *)
(* (SameRatio).  A division by zero raises ZeroDivisionError.              *)
(* prod(ps) ** (1 / n) is the pair [radicand |-> product, degree |-> n].   *)
(* Time is counted in minutes.                                             *)
(*                                                                         *)
(* Optional values.  None is the empty tuple and a present value v is the  *)
(* one-element tuple <<v>>.                                                *)
(*                                                                         *)
(* Exceptions.  A call either returns a value or raises; the outcome of    *)
(* the last call is kept in the variable result.                           *)
(***************************************************************************)
EXTENDS Integers, Sequences, FiniteSets

VARIABLES
    stocks,   \* StockMarket.stocks: dict symbol -> Stock
    trades,   \* StockMarket.trades: list of Trade, in insertion order
    now,      \* the wall clock read by datetime.datetime.now(), in minutes
    known,    \* history: for each element of trades, whether its symbol was
              \* a key of stocks when record_trade received it
    result    \* the last call: its name, arguments and outcome

vars == <<stocks, trades, now, known, result>>

----------------------------------------------------------------------------
(* Bounds of the model *)

MaxTrades == 2      \* longest trades list explored
MaxTime == 1        \* the clock stops advancing here

(* Program constant *)

Window == 15        \* datetime.timedelta(minutes=15)

----------------------------------------------------------------------------
(* Values *)

None == <<>>
Some(v) == <<v>>
Val(o) == o[1]

Abs(a) == IF a < 0 THEN -a ELSE a

RECURSIVE Gcd(_, _)
Gcd(a, b) == IF b = 0 THEN a ELSE Gcd(b, a % b)

\* the number a / b, b # 0: the fraction in lowest terms, denominator positive
Ratio(a, b) ==
    LET g == Gcd(Abs(a), Abs(b))
        sign == IF b < 0 THEN -1 ELSE 1
    IN  [num |-> sign * (a \div g), den |-> sign * (b \div g)]

SameRatio(q, a, b) == q.den # 0 /\ b # 0 /\ q.num * b = a * q.den

Return(v) == [raised |-> "", value |-> v]
Raise(exc, msg) == [raised |-> exc, msg |-> msg]

\* Python's a / b
TrueDiv(a, b) ==
    IF b = 0 THEN Raise("ZeroDivisionError", "division by zero")
    ELSE Return(Ratio(a, b))

MsgPriceZero == "Price cannot be zero for dividend yield calculation."
MsgParValue == "Par value required for preferred stock dividend yield calculation."
MsgPeRatio == "Cannot calculate P/E ratio for preferred stock or common stock with zero dividend."
MsgNoStocks == "No stocks added to the market."
MsgNoPrices == "No stock prices available for index calculation."
MsgNotFound == "Stock with symbol not found."
MsgNone == ""

Symbols == {"TEA", "GIN"}
StockTypes == {"Common", "Preferred"}
Dividends == {0, 8}
ParValues == {None, Some(0), Some(100)}
PriceArgs == {-1, 0, 5, 100}
TickSteps == {1}
TimestampAges == {0, 15, 16}

----------------------------------------------------------------------------
(* class Stock *)

Stock(symbol, stock_type, last_dividend, par_value) ==
    [symbol |-> symbol, type |-> stock_type, last_dividend |-> last_dividend,
     par_value |-> par_value, price |-> None]

\* Every Stock the constructor can build over the value sets above.
StockInputs ==
    {Stock(s, ty, d, p) : s \in Symbols, ty \in StockTypes, d \in Dividends,
                          p \in ParValues}

\* The Stock objects the market scenarios register: the test fixture's TEA and
\* GIN, and a second GIN so that a symbol is registered twice.
MarketStocks ==
    {Stock("TEA", "Common", 0, Some(100)),
     Stock("GIN", "Preferred", 8, Some(100)),
     Stock("GIN", "Common", 8, None)}

\* mutant: a zero price passes the Common check
DividendYieldNonNegative(stock, price) ==
    IF stock.type = "Common"
    THEN IF price >= 0
         THEN TrueDiv(stock.last_dividend, price)
         ELSE Raise("ValueError", MsgPriceZero)
    ELSE IF stock.par_value = None
         THEN Raise("TypeError", MsgNone)
         ELSE IF Val(stock.par_value) > 0
              THEN TrueDiv(stock.last_dividend, Val(stock.par_value))
              ELSE Raise("ValueError", MsgParValue)

DividendYield(stock, price) ==
    IF stock.type = "Common"
    THEN IF price > 0
         THEN TrueDiv(stock.last_dividend, price)
         ELSE Raise("ValueError", MsgPriceZero)
    ELSE IF stock.par_value = None
         THEN Raise("TypeError", MsgNone)      \* None > 0
         ELSE IF Val(stock.par_value) > 0
              THEN TrueDiv(stock.last_dividend, Val(stock.par_value))
              ELSE Raise("ValueError", MsgParValue)

\* mutant: the stock type is not looked at
PeRatioAnyType(stock, price) ==
    IF stock.last_dividend > 0
    THEN TrueDiv(price, stock.last_dividend)
    ELSE Raise("ValueError", MsgPeRatio)

PeRatio(stock, price) ==
    IF stock.type = "Common" /\ stock.last_dividend > 0
    THEN TrueDiv(price, stock.last_dividend)
    ELSE Raise("ValueError", MsgPeRatio)

(* class Trade *)

Trade(timestamp, symbol, quantity, buy_sell, price) ==
    [timestamp |-> timestamp, symbol |-> symbol, quantity |-> quantity,
     buy_sell |-> buy_sell, price |-> price]

\* The trades offered to record_trade at clock time t: three orders, each
\* stamped now, exactly 15 minutes ago or 16 minutes ago.
TradeInputs(t) ==
    {Trade(t - age, o[1], o[2], o[3], o[4]) :
        age \in TimestampAges,
        o \in {<<"TEA", 1, "Buy", 100>>, <<"TEA", 2, "Sell", 60>>,
               <<"GIN", 1, "Sell", 60>>}}

----------------------------------------------------------------------------
(* class StockMarket: pure parts *)

RECURSIVE SelectByMask(_, _)
SelectByMask(s, mask) ==
    IF s = <<>> THEN <<>>
    ELSE (IF Head(mask) THEN <<Head(s)>> ELSE <<>>)
         \o SelectByMask(Tail(s), Tail(mask))

\* mutant: the record stamped exactly at the cutoff is dropped too
KeepRecentStrict(trds, cutoff_time) ==
    SelectSeq(trds, LAMBDA t : t.timestamp > cutoff_time)

\* [t for t in self.trades if t.timestamp >= cutoff_time]
KeepRecent(trds, cutoff_time) ==
    SelectSeq(trds, LAMBDA t : t.timestamp >= cutoff_time)

\* self.trades after record_trade(trade) at clock time t
TradesAfterRecord(trds, trade, t) ==
    KeepRecent(Append(trds, trade), t - Window)

\* the trades the loop of calculate_volume_weighted_stock_price adds up
MatchingTrades(trds, symbol) ==
    SelectSeq(trds, LAMBDA t : t.symbol = symbol)

RECURSIVE TotalQuantity(_)
TotalQuantity(trds) ==
    IF trds = <<>> THEN 0
    ELSE Head(trds).quantity + TotalQuantity(Tail(trds))

RECURSIVE TotalPriceQuantity(_)
TotalPriceQuantity(trds) ==
    IF trds = <<>> THEN 0
    ELSE Head(trds).price * Head(trds).quantity + TotalPriceQuantity(Tail(trds))

\* mutant: the symbol is not looked up in stocks
VolumeWeightedStockPriceUnchecked(stks, trds, symbol) ==
    LET matched == MatchingTrades(trds, symbol)
        total_quantity == TotalQuantity(matched)
        total_price_quantity == TotalPriceQuantity(matched)
    IN  IF total_quantity > 0
        THEN TrueDiv(total_price_quantity, total_quantity)
        ELSE Raise("ValueError", MsgNone)

\* mutant: the plain mean of the matching prices
VolumeWeightedStockPriceUnweighted(stks, trds, symbol) ==
    IF symbol \notin DOMAIN stks THEN Raise("ValueError", MsgNotFound)
    ELSE LET matched == MatchingTrades(trds, symbol)
             total_price == TotalPriceQuantity(
                 [i \in 1..Len(matched) |-> [matched[i] EXCEPT !.quantity = 1]])
         IN  IF Len(matched) > 0
             THEN TrueDiv(total_price, Len(matched))
             ELSE Raise("ValueError", MsgNone)

VolumeWeightedStockPrice(stks, trds, symbol) ==
    IF symbol \notin DOMAIN stks THEN Raise("ValueError", MsgNotFound)
    ELSE LET matched == MatchingTrades(trds, symbol)
             total_quantity == TotalQuantity(matched)
             total_price_quantity == TotalPriceQuantity(matched)
         IN  IF total_quantity > 0
             THEN TrueDiv(total_price_quantity, total_quantity)
             ELSE Raise("ValueError", MsgNone)

\* the symbols of the stocks whose price is not None
Priced(stks) == {s \in DOMAIN stks : stks[s].price # None}

RECURSIVE ProdNum(_, _)
ProdNum(stks, S) ==
    IF S = {} THEN 1
    ELSE LET s == CHOOSE x \in S : TRUE
         IN  Val(stks[s].price).num * ProdNum(stks, S \ {s})

RECURSIVE ProdDen(_, _)
ProdDen(stks, S) ==
    IF S = {} THEN 1
    ELSE LET s == CHOOSE x \in S : TRUE
         IN  Val(stks[s].price).den * ProdDen(stks, S \ {s})

\* mutant: the root is taken over all stocks, priced or not
GbceAllShareIndexCountAll(stks) ==
    IF DOMAIN stks = {} THEN Raise("ValueError", MsgNoStocks)
    ELSE LET prices == Priced(stks)
         IN  IF prices = {} THEN Raise("ValueError", MsgNoPrices)
             ELSE Return([radicand |-> Ratio(ProdNum(stks, prices),
                                             ProdDen(stks, prices)),
                          degree |-> Cardinality(DOMAIN stks)])

GbceAllShareIndex(stks) ==
    IF DOMAIN stks = {} THEN Raise("ValueError", MsgNoStocks)
    ELSE LET prices == Priced(stks)
         IN  IF prices = {} THEN Raise("ValueError", MsgNoPrices)
             ELSE Return([radicand |-> Ratio(ProdNum(stks, prices),
                                             ProdDen(stks, prices)),
                          degree |-> Cardinality(prices)])

----------------------------------------------------------------------------
(* StockMarket: the operations *)

Init ==
    /\ stocks = <<>>
    /\ trades = <<>>
    /\ now = 0
    /\ known = <<>>
    /\ result = [op |-> "init"]

\* mutant: self.stocks.setdefault(stock.symbol, stock)
PutIfAbsent(stks, stock) ==
    [s \in DOMAIN stks \cup {stock.symbol} |->
        IF s \in DOMAIN stks THEN stks[s] ELSE stock]

\* self.stocks[stock.symbol] = stock
Put(stks, stock) ==
    [s \in DOMAIN stks \cup {stock.symbol} |->
        IF s = stock.symbol THEN stock ELSE stks[s]]

AddStock(stock) ==
    /\ stocks' = Put(stocks, stock)
    /\ result' = [op |-> "add_stock", stock |-> stock, out |-> Return(None),
                  replaced |-> stock.symbol \in DOMAIN stocks]
    /\ UNCHANGED <<trades, now, known>>

RecordTrade(trade) ==
    LET appended == Append(trades, trade)
        mask == [i \in 1..Len(appended) |-> appended[i].timestamp >= now - Window]
    IN  /\ Len(TradesAfterRecord(trades, trade, now)) <= MaxTrades
        /\ trades' = TradesAfterRecord(trades, trade, now)
        /\ known' = SelectByMask(Append(known, trade.symbol \in DOMAIN stocks), mask)
        /\ result' = [op |-> "record_trade", trade |-> trade, out |-> Return(None),
                      pruned |-> Len(trades) + 1
                                 - Len(TradesAfterRecord(trades, trade, now))]
        /\ UNCHANGED <<stocks, now>>

CalculateVolumeWeightedStockPrice(symbol) ==
    /\ result' = [op |-> "calculate_volume_weighted_stock_price",
                  symbol |-> symbol,
                  out |-> VolumeWeightedStockPrice(stocks, trades, symbol)]
    /\ UNCHANGED <<stocks, trades, now, known>>

\* mutant: the stocks without a price are dropped from the market first
CalculateGbceAllShareIndexDropping ==
    /\ stocks' = [s \in Priced(stocks) |-> stocks[s]]
    /\ result' = [op |-> "calculate_gbce_all_share_index",
                  out |-> GbceAllShareIndex(stocks)]
    /\ UNCHANGED <<trades, now, known>>

CalculateGbceAllShareIndex ==
    /\ result' = [op |-> "calculate_gbce_all_share_index",
                  out |-> GbceAllShareIndex(stocks)]
    /\ UNCHANGED <<stocks, trades, now, known>>

\* stock.price = market.calculate_volume_weighted_stock_price(stock.symbol),
\* for a stock held by the market; a raise leaves the price as it was.
UpdatePrice(symbol) ==
    LET out == VolumeWeightedStockPrice(stocks, trades, symbol)
    IN  /\ symbol \in DOMAIN stocks
        /\ stocks' = IF out.raised = ""
                     THEN [stocks EXCEPT ![symbol].price = Some(out.value)]
                     ELSE stocks
        /\ result' = [op |-> "update_price", symbol |-> symbol, out |-> out]
        /\ UNCHANGED <<trades, now, known>>

\* time passes between two calls
Tick(d) ==
    /\ now + d <= MaxTime
    /\ now' = now + d
    /\ result' = [op |-> "tick"]
    /\ UNCHANGED <<stocks, trades, known>>

\* the trade log under a running clock
Next ==
    \/ \E stock \in MarketStocks : AddStock(stock)
    \/ \E trade \in TradeInputs(now) : RecordTrade(trade)
    \/ \E symbol \in Symbols : CalculateVolumeWeightedStockPrice(symbol)
    \/ \E d \in TickSteps : Tick(d)

Spec == Init /\ [][Next]_vars

\* prices and the index, the clock standing still
NextIndex ==
    \/ \E stock \in MarketStocks : AddStock(stock)
    \/ \E trade \in TradeInputs(now) : RecordTrade(trade)
    \/ \E symbol \in Symbols : CalculateVolumeWeightedStockPrice(symbol)
    \/ CalculateGbceAllShareIndex
    \/ \E symbol \in Symbols : UpdatePrice(symbol)

SpecIndex == Init /\ [][NextIndex]_vars

----------------------------------------------------------------------------
(* Stock: the two ratios, called on a stock the market holds *)

CalculateDividendYield(symbol, price) ==
    /\ symbol \in DOMAIN stocks
    /\ result' = [op |-> "calculate_dividend_yield", symbol |-> symbol,
                  price |-> price, out |-> DividendYield(stocks[symbol], price)]
    /\ UNCHANGED <<stocks, trades, now, known>>

CalculatePeRatio(symbol, price) ==
    /\ symbol \in DOMAIN stocks
    /\ result' = [op |-> "calculate_pe_ratio", symbol |-> symbol,
                  price |-> price, out |-> PeRatio(stocks[symbol], price)]
    /\ UNCHANGED <<stocks, trades, now, known>>

NextStock ==
    \/ \E stock \in StockInputs : AddStock(stock)
    \/ \E symbol \in Symbols, price \in PriceArgs :
          CalculateDividendYield(symbol, price)
    \/ \E symbol \in Symbols, price \in PriceArgs :
          CalculatePeRatio(symbol, price)

SpecStock == Init /\ [][NextStock]_vars

----------------------------------------------------------------------------
(* The properties checked *)

InSeq(x, s) == \E i \in 1..Len(s) : s[i] = x
Ok(r) == r.out.raised = ""
Raised(r, exc, msg) == r.out = [raised |-> exc, msg |-> msg]
IsVwsp(r) == r.op = "calculate_volume_weighted_stock_price"
IsIndex(r) == r.op = "calculate_gbce_all_share_index"

C2_QueryUsesOnlyWindow ==
    (IsVwsp(result) /\ result.symbol \in DOMAIN stocks) =>
        LET used == MatchingTrades(trades, result.symbol)
            recent == SelectSeq(used, LAMBDA x : x.timestamp >= now - 15)
        IN  /\ Ok(result) => \A i \in 1..Len(used) : used[i].timestamp >= now - 15
            /\ recent = <<>> => Raised(result, "ValueError", MsgNone)

C4_FailedQueryChangesNothing ==
    [][((IsVwsp(result') \/ IsIndex(result') \/ result'.op = "update_price")
        /\ ~Ok(result'))
       => (stocks' = stocks /\ trades' = trades)]_vars

\* C4 witness: a failed query on a market that holds a priced stock and
\* recorded trades.
C4_Witness ==
    /\ IsVwsp(result) \/ IsIndex(result)
    /\ ~Ok(result)
    /\ Priced(stocks) # {}
    /\ trades # <<>>

IsYield(r) == r.op = "calculate_dividend_yield"
IsPe(r) == r.op = "calculate_pe_ratio"

\* C5: calculate_pe_ratio(price) returns iff the stock is Common with a
\* positive last dividend, and then returns price / last_dividend; in every
\* other case it raises the P/E ValueError and returns nothing.
C5_PeRatio ==
    IsPe(result) =>
        LET stock == stocks[result.symbol]
        IN  /\ Ok(result) <=> (stock.type = "Common" /\ stock.last_dividend > 0)
            /\ Ok(result) => SameRatio(result.out.value, result.price,
                                       stock.last_dividend)
            /\ ~Ok(result) => Raised(result, "ValueError", MsgPeRatio)

\* C5 witness: the P/E ratio of a Preferred stock with a positive dividend was
\* asked for, and refused.
C5_Witness ==
    /\ IsPe(result)
    /\ stocks[result.symbol].type = "Preferred"
    /\ stocks[result.symbol].last_dividend > 0
    /\ result.price > 0
    /\ ~Ok(result)

\* C6: for a Preferred stock and any price, calculate_dividend_yield returns
\* last_dividend / par_value when par_value > 0, and raises ValueError (the
\* error of a bad Common price) when par_value is absent or not positive.
C6_PreferredYield ==
    (IsYield(result) /\ stocks[result.symbol].type = "Preferred") =>
        LET stock == stocks[result.symbol]
        IN  IF stock.par_value # None /\ Val(stock.par_value) > 0
            THEN /\ Ok(result)
                 /\ SameRatio(result.out.value, stock.last_dividend,
                              Val(stock.par_value))
            ELSE ~Ok(result) /\ result.out.raised = "ValueError"

\* C7: for a Common stock, calculate_dividend_yield(price) returns
\* last_dividend / price when price > 0 (zero when the dividend is zero,
\* whatever the par value) and raises the price ValueError when price <= 0;
\* the stock is unchanged either way.
C7_CommonYield ==
    [][(IsYield(result') /\ stocks[result'.symbol].type = "Common") =>
        LET stock == stocks[result'.symbol]
        IN  /\ stocks' = stocks
            /\ IF result'.price > 0
               THEN /\ Ok(result')
                    /\ SameRatio(result'.out.value, stock.last_dividend,
                                 result'.price)
                    /\ stock.last_dividend = 0 => result'.out.value.num = 0
               ELSE Raised(result', "ValueError", MsgPriceZero)]_vars

\* C7 witness: the yield of a Common stock with dividend 8 and no par value,
\* at price 5.
C7_Witness ==
    /\ IsYield(result)
    /\ stocks[result.symbol].type = "Common"
    /\ stocks[result.symbol].par_value = None
    /\ result.price = 5
    /\ Ok(result)
    /\ SameRatio(result.out.value, 8, 5)

\* C8: calculate_gbce_all_share_index() raises "no stocks" when stocks is
\* empty; otherwise raises "no prices" when no stock has a price; otherwise
\* returns the n-th root of the product of the n prices that are set, the
\* stocks without a price counted neither in the product nor in n.
C8_AllShareIndex ==
    IsIndex(result) =>
        LET priced == {s \in DOMAIN stocks : stocks[s].price # None}
        IN  IF DOMAIN stocks = {}
            THEN Raised(result, "ValueError", MsgNoStocks)
            ELSE IF priced = {}
            THEN Raised(result, "ValueError", MsgNoPrices)
            ELSE /\ Ok(result)
                 /\ result.out.value.degree = Cardinality(priced)
                 /\ SameRatio(result.out.value.radicand,
                              ProdNum(stocks, priced), ProdDen(stocks, priced))

\* C8 witness: the index over two stocks of which one has a price.
C8_Witness ==
    /\ IsIndex(result)
    /\ Ok(result)
    /\ Cardinality(DOMAIN stocks) = 2
    /\ Cardinality(Priced(stocks)) = 1
    /\ result.out.value.degree = 1

\* C9 as stated: a trade recorded while its symbol was no key of stocks never
\* contributes to the result of a volume-weighted price query.
C9_OrphanNeverMatched ==
    (IsVwsp(result) /\ Ok(result)) =>
        \A i \in 1..Len(trades) : trades[i].symbol = result.symbol => known[i]

\* C9 as amended: record_trade accepts a trade of an unregistered symbol
\* without error and keeps it under the same 15-minute rule; a volume-weighted
\* price query never matches a trade whose symbol is unregistered at the time
\* of the query: it returns only for a registered symbol, and then from exactly
\* the trades of that symbol, whenever they were recorded.
C9_UnregisteredAtQueryNeverMatched ==
    /\ result.op = "record_trade" =>
          /\ Ok(result)
          /\ InSeq(result.trade, trades) <=> result.trade.timestamp >= now - 15
    /\ (IsVwsp(result) /\ result.symbol \notin DOMAIN stocks) =>
          Raised(result, "ValueError", MsgNotFound)
    /\ (IsVwsp(result) /\ Ok(result)) =>
          LET registered == SelectSeq(trades, LAMBDA t :
                                t.symbol \in DOMAIN stocks
                                /\ t.symbol = result.symbol)
          IN  /\ result.symbol \in DOMAIN stocks
              /\ SameRatio(result.out.value, TotalPriceQuantity(registered),
                           TotalQuantity(registered))

\* C9 witness: a query answered while the list holds a trade of a symbol that
\* is still unregistered, and a trade of the queried symbol recorded before
\* that symbol was registered.
C9_Witness ==
    /\ IsVwsp(result)
    /\ Ok(result)
    /\ \E i \in 1..Len(trades) : trades[i].symbol \notin DOMAIN stocks
    /\ \E i \in 1..Len(trades) : trades[i].symbol = result.symbol /\ ~known[i]

\* C10: add_stock(stock) never raises; afterwards stocks maps stock.symbol to
\* exactly that stock (an earlier stock of the symbol, price included, is
\* replaced), every other entry and trades are unchanged; and no step of any
\* operation removes a key of stocks.
C10_AddStockLastWriteWins ==
    [][/\ result'.op = "add_stock" =>
            LET stock == result'.stock
            IN  /\ Ok(result')
                /\ DOMAIN stocks' = DOMAIN stocks \cup {stock.symbol}
                /\ stocks'[stock.symbol] = stock
                /\ \A s \in DOMAIN stocks \ {stock.symbol} : stocks'[s] = stocks[s]
                /\ trades' = trades
       /\ DOMAIN stocks \subseteq DOMAIN stocks']_vars

\* C10 witness: add_stock replaced a stock of the same symbol, losing the
\* price it carried, beside another priced stock and a recorded trade.
C10_Witness ==
    /\ result.op = "add_stock"
    /\ result.replaced
    /\ stocks[result.stock.symbol].price = None
    /\ Priced(stocks) # {}
    /\ trades # <<>>

====
